---- MODULE Spec2Model ----
(***************************************************************************)
(* Model of the Store of src/types/store.js (class Store extends Actor,    *)
(* src/types/actor.js): the path-addressed content tree, the flat indices, *)
(* commit, trust and the engine life cycle.                                *)
(*                                                                         *)
(* A JavaScript string is a sequence of atoms.  An atom is a literal chunk *)
(* of text <<c>>, the hex rendering of a digest, or the hex encoding of    *)
(* bytes, the latter two as a pair of a tag and the bytes they stand for;  *)
(* the separator "/" and the tilde "~" are atoms of their own, so that     *)
(* escaping, parsing and hashing of paths are computed as the code does.   *)
(***************************************************************************)
EXTENDS Integers, Sequences, FiniteSets, TLC

(***************************************************************************)
(* Bounds                                                                  *)
(***************************************************************************)
MaxOps == 3

MaxTrust == 2

(***************************************************************************)
(* Strings                                                                 *)
(***************************************************************************)
L(c) == <<c>>

Hex(bytes) == <<"#hex", bytes>>

Enc(bytes) == <<"#enc", bytes>>

Raw(hex) == <<"#raw", hex>>

Txt(s) == [i \in 1..Len(s) |-> L(s[i])]

Slash == L("/")

Tilde == L("~")

\* String.prototype.replace(/pat/g, rep)
RECURSIVE ReplaceAll(_, _, _)
ReplaceAll(s, pat, rep) ==
  IF Len(s) < Len(pat) THEN s
  ELSE IF SubSeq(s, 1, Len(pat)) = pat
       THEN rep \o ReplaceAll(SubSeq(s, Len(pat) + 1, Len(s)), pat, rep)
       ELSE <<Head(s)>> \o ReplaceAll(Tail(s), pat, rep)

\* String.prototype.split('/')
RECURSIVE Split(_, _)
Split(s, acc) ==
  IF s = <<>> THEN <<acc>>
  ELSE IF Head(s) = Slash THEN <<acc>> \o Split(Tail(s), <<>>)
       ELSE Split(Tail(s), Append(acc, Head(s)))

(***************************************************************************)
(* Values                                                                  *)
(***************************************************************************)
V(t, s, m) == [t |-> t, s |-> s, m |-> m]

Str(s) == V("str", s, <<>>)

Num == V("num", Txt(<<"1">>), <<>>)

Null == V("null", <<>>, <<>>)

Undef == V("undef", <<>>, <<>>)

False == V("bool", Txt(<<"false">>), <<>>)

This == V("this", <<>>, <<>>)

\* an object: its own properties in insertion order, as <<key, value>> pairs
Obj(m) == V("obj", <<>>, m)

HasKey(o, key) == o.t = "obj" /\ \E i \in 1..Len(o.m) : o.m[i][1] = key

GetKey(o, key) == o.m[CHOOSE i \in 1..Len(o.m) : o.m[i][1] = key][2]

PutKey(o, key, v) ==
  IF HasKey(o, key)
  THEN Obj([i \in 1..Len(o.m) |-> IF o.m[i][1] = key THEN <<key, v>> ELSE o.m[i]])
  ELSE Obj(Append(o.m, <<key, v>>))

\* the outcome of a call: a returned value or a thrown exception
Ok(v) == [ok |-> TRUE, v |-> v]

Throw == [ok |-> FALSE, v |-> Undef]

(***************************************************************************)
(* json-pointer                                                            *)
(***************************************************************************)
escape(s) == ReplaceAll(ReplaceAll(s, <<Tilde>>, <<Tilde, L("0")>>), <<Slash>>, <<Tilde, L("1")>>)

unescape(s) == ReplaceAll(ReplaceAll(s, <<Tilde, L("1")>>, <<Slash>>), <<Tilde, L("0")>>, <<Tilde>>)

\* pointer.parse: the reference tokens of a pointer that begins with "/"
parse(p) ==
  IF p = <<>> THEN <<>>
  ELSE LET parts == Split(Tail(p), <<>>) IN [i \in 1..Len(parts) |-> unescape(parts[i])]

RECURSIVE PointerGet(_, _)
PointerGet(o, toks) ==
  IF toks = <<>> THEN Ok(o)
  ELSE IF ~HasKey(o, Head(toks)) THEN Throw
       ELSE PointerGet(GetKey(o, Head(toks)), Tail(toks))

\* pointer.set returns the object after the assignment; it throws before any
\* assignment is made when a token leads into a value that is not an object
RECURSIVE PointerSet(_, _, _)
PointerSet(o, toks, value) ==
  IF toks = <<>> \/ o.t # "obj" THEN Throw
  ELSE IF Len(toks) = 1 THEN Ok(PutKey(o, Head(toks), value))
       ELSE LET put(r) == IF r.ok THEN Ok(PutKey(o, Head(toks), r.v)) ELSE Throw
            IN put(PointerSet(IF HasKey(o, Head(toks)) THEN GetKey(o, Head(toks)) ELSE Obj(<<>>),
                              Tail(toks), value))

(***************************************************************************)
(* Serialization and identity                                              *)
(***************************************************************************)
\* JSON.stringify of a value that has a JSON text; an undefined property is
\* left out of its object
RECURSIVE stringify(_)
RECURSIVE stringifyProps(_, _)
stringifyProps(m, first) ==
  IF m = <<>> THEN <<>>
  ELSE IF Head(m)[2].t = "undef" THEN stringifyProps(Tail(m), first)
       ELSE (IF first THEN <<>> ELSE Txt(<<",">>))
            \o Txt(<<"\"">>) \o Head(m)[1] \o Txt(<<"\"", ":">>) \o stringify(Head(m)[2])
            \o stringifyProps(Tail(m), FALSE)

stringify(v) ==
  CASE v.t = "str" -> Txt(<<"\"">>) \o v.s \o Txt(<<"\"">>)
    [] v.t = "obj" -> Txt(<<"{">>) \o stringifyProps(v.m, TRUE) \o Txt(<<"}">>)
    [] v.t = "null" -> Txt(<<"null">>)
    [] OTHER -> v.s

\* the order of the chunks of text used by the key sort
Alphabet ==
  <<"\"", ",", "/", "0", "1", "2", "3", ":", "@data", "@type", "Actor", "Boolean", "Entity",
    "FabricActorState", "FabricDocument", "Number", "Object", "String", "[", "]", "a",
    "addresses", "b", "blobs", "collections", "content", "encoding", "entities", "false", "j",
    "json", "k", "names", "null", "original", "sources", "stacks", "state", "states", "tips",
    "type", "types", "x", "y", "{", "}", "~">>

RankTable ==
  [c \in {Alphabet[i] : i \in 1..Len(Alphabet)} |-> CHOOSE i \in 1..Len(Alphabet) : Alphabet[i] = c]

\* renderings of bytes sort before text, text outside the alphabet after it
Rank(atom) == IF Len(atom) # 1 THEN 0
              ELSE IF atom[1] \in DOMAIN RankTable THEN RankTable[atom[1]]
                   ELSE Len(Alphabet) + 1

\* the order of the renderings of bytes: encodings, digests, raw bytes
TagRank(atom) == CASE atom[1] = "#enc" -> 1 [] atom[1] = "#hex" -> 2 [] OTHER -> 3

\* the order of two strings: chunk by chunk, renderings of bytes by the bytes
RECURSIVE KeyLess(_, _)
KeyLess(k1, k2) ==
  IF k1 = <<>> THEN k2 # <<>>
  ELSE IF k2 = <<>> THEN FALSE
       ELSE IF Head(k1) = Head(k2) THEN KeyLess(Tail(k1), Tail(k2))
            ELSE IF Rank(Head(k1)) # Rank(Head(k2)) THEN Rank(Head(k1)) < Rank(Head(k2))
                 ELSE IF Rank(Head(k1)) # 0 THEN FALSE
                      ELSE IF TagRank(Head(k1)) # TagRank(Head(k2))
                           THEN TagRank(Head(k1)) < TagRank(Head(k2))
                           ELSE KeyLess(Head(k1)[2], Head(k2)[2])

RECURSIVE Insert(_, _)
Insert(sorted, pair) ==
  IF sorted = <<>> THEN <<pair>>
  ELSE IF KeyLess(pair[1], Head(sorted)[1]) THEN <<pair>> \o sorted
       ELSE <<Head(sorted)>> \o Insert(Tail(sorted), pair)

\* functions/_sortKeys: mapping keys in sorted order, recursively
RECURSIVE sortKeys(_)
RECURSIVE sortProps(_, _)
sortProps(m, acc) ==
  IF m = <<>> THEN acc
  ELSE sortProps(Tail(m), Insert(acc, <<Head(m)[1], sortKeys(Head(m)[2])>>))

sortKeys(v) == IF v.t = "obj" THEN Obj(sortProps(v.m, <<>>)) ELSE v

\* Hash256.digest: the hex rendering of the digest of the given bytes
Digest(bytes) == <<Hex(bytes)>>

\* Store's sha256 of a string
sha256(s) == Digest(s)

\* the bytes hashed when a value, not a string, is handed to sha256
ValueBytes(v) == IF v.t = "str" THEN v.s ELSE stringify(v)

\* whether the canonical form of a value exists
Serializable(v) == v.t \in {"str", "num", "null", "obj", "bool"}

\* State Value: canonical(v) and id = Digest(canonical(v))
canonical(v) == stringify(sortKeys(v))

StateId(v) == Digest(canonical(v))

\* Actor._readObject
readObject(input) ==
  CASE input.t = "str" -> Obj(<< <<Txt(<<"type">>), Str(Txt(<<"String">>))>>,
                                 <<Txt(<<"content">>), input>> >>)
    [] input.t = "obj" -> input
    [] OTHER -> Obj(<<>>)

\* the preimage takes the state with its keys as they were inserted
preimageUnsorted(state) ==
  Digest(stringify(Obj(<< <<Txt(<<"@type">>), Str(Txt(<<"FabricActorState">>))>>,
                          <<Txt(<<"@data">>), state>> >>)))

\* Actor.preimage over the actor's state
preimage(state) ==
  Digest(stringify(Obj(<< <<Txt(<<"@type">>), Str(Txt(<<"FabricActorState">>))>>,
                          <<Txt(<<"@data">>), sortKeys(state)>> >>)))

\* Actor.id: the digest of the bytes the preimage is the hex rendering of
ActorId(state) == Digest(<<Raw(preimage(state))>>)

\* Entity: identity of the record built from the given data
EntityData(data) == IF data.t = "undef" THEN Obj(<<>>) ELSE data

EntityId(data) ==
  Digest(canonical(Obj(<< <<Txt(<<"@type">>), Str(Txt(<<"Entity">>))>>,
                          <<Txt(<<"@data">>), EntityData(data)>> >>)))

(***************************************************************************)
(* The Store                                                               *)
(***************************************************************************)
VARIABLES
  content,     \* _state.content: the logical tree
  actors,      \* _state.actors: actor id -> actor state
  documents,   \* _state.documents: sha256(value) -> value
  indices,     \* _state.indices: route digest -> escaped pointer
  metadata,    \* _state.metadata: route digest -> data info
  keys,        \* this.keys: address -> {path, address}
  method,      \* this['@method']
  entityData,  \* this['@entity']['@data']
  db,          \* this.db: state of the handle last created, and its put listeners
  disk,        \* what the engine holds: address -> string
  status,      \* this.status
  handles,     \* how many engine handles open() has created
  subs,        \* how many put listeners trust() has registered on them
  trusted,     \* the put listeners trust() has registered on the foreign source
  persistent,  \* settings.persistent
  ret,         \* the call that finished last, and its outcome
  emitted,     \* the events emitted during that call, in order
  commitLog,   \* identities of the commits since the last mutating call
  lastPut,     \* foreign key -> value of the last put whose mirroring completed
  trail,       \* engine calls and status assignments made by the last call, in order
  nops         \* calls made so far

vars == <<content, actors, documents, indices, metadata, keys, method, entityData, db, disk,
          status, handles, subs, trusted, persistent, ret, emitted, commitLog, lastPut, trail,
          nops>>

Empty == [x \in {} |-> Undef]

\* the fields of the Store object
Self == [content |-> content, actors |-> actors, documents |-> documents,
         indices |-> indices, metadata |-> metadata, keys |-> keys, method |-> method,
         entity |-> entityData, db |-> db, disk |-> disk, status |-> status,
         handles |-> handles, subs |-> subs, trail |-> <<>>]

\* the outcome of a method call: returned value or exception, the Store
\* afterwards, and the events emitted on the way
R(out, S, ev) == [ok |-> out.ok, v |-> out.v, S |-> S, ev |-> ev]

CommitEvent(id, data) == [type |-> "commit", id |-> id, target |-> <<>>, data |-> data]

SourceEvent(id, key, value) == [type |-> "source/events", id |-> id, target |-> key, data |-> value]

getRouteInfo(path) ==
  LET info(p) ==
        LET route(id) == [path |-> p, pointer |-> id, index |-> sha256(id)]
        IN route(escape(p))
  IN info(IF path = <<>> \/ Head(path) # Slash THEN <<Slash>> \o path ELSE path)

\* value.constructor.name throws on null and undefined
getDataInfo(value) ==
  IF value.t \in {"null", "undef"} THEN Throw
  ELSE IF value.t = "str"
       THEN Ok([type |-> "JSONString", size |-> Len(value.s), hash |-> sha256(value.s)])
       ELSE Ok([type |-> "Unhandled", size |-> -1, hash |-> <<>>])

encodeValue(value) ==
  IF value.t \in {"null", "undef"} \/ ~Serializable(value) THEN Throw
  ELSE Ok(<<Enc(stringify(value))>>)

\* the entity is built from the status instead of the state
CommitStateStatus(S) == Str(Txt(<<S.status>>))

\* this.state.state: the property "state" of the content tree
CommitState(S) ==
  IF HasKey(S.content, Txt(<<"state">>)) THEN GetKey(S.content, Txt(<<"state">>)) ELSE Undef

\* commit leaves a mark in the status
commitMarking(S) ==
  LET emit(id, data) == R(Ok(Str(id)), [S EXCEPT !.status = "committed"], <<CommitEvent(id, data)>>)
  IN emit(EntityId(CommitState(S)), EntityData(CommitState(S)))

commit(S) ==
  LET emit(id, data) == R(Ok(Str(id)), S, <<CommitEvent(id, data)>>)
  IN emit(EntityId(CommitState(S)), EntityData(CommitState(S)))

get(S, key) ==
  LET read(route) ==
        LET typed(result) ==
              IF ~result.ok THEN R(Throw, S, <<>>)
              ELSE IF route.index \notin DOMAIN S.metadata THEN R(Throw, S, <<>>)
                   ELSE R(Ok(result.v), S, <<>>)
        IN typed(PointerGet(S.content, parse(route.path)))
  IN read(getRouteInfo(key))

\* set stores the encoded text in the tree instead of the value
writeContentEncoded(S, route, value, data) == PointerSet(S.content, parse(route.path), Str(data))

\* pointer.set(this._state.content, route.path, value)
writeContent(S, route, value, data) == PointerSet(S.content, parse(route.path), value)

\* the document is filed under the digest of its route
documentHashOfRoute(route, value) == route.index

\* const hash = this.sha256(value)
documentHash(route, value) == sha256(ValueBytes(value))

set(S, key, value) ==
  LET store(route, info, data) ==
        IF ~info.ok \/ ~data.ok THEN R(Throw, S, <<>>)
        ELSE
          LET index(actor) ==
                [S EXCEPT !.actors = (ActorId(actor) :> actor) @@ @,
                          !.documents = (documentHash(route, value) :> value) @@ @,
                          !.indices = (route.index :> route.pointer) @@ @,
                          !.metadata = (route.index :> info.v) @@ @]
              write(S1) ==
                LET done(tree) ==
                      IF ~tree.ok THEN R(Throw, S1, <<>>)
                      ELSE LET read(S2) == R(get(S2, key), S2, commit(S2).ev)
                           IN read([S1 EXCEPT !.content = tree.v])
                IN done(writeContent(S1, route, value, data.v))
          IN write(index(readObject(Obj(<< <<Txt(<<"type">>), Str(Txt(<<"FabricDocument">>))>>,
                                           <<Txt(<<"content">>), Str(data.v)>>,
                                           <<Txt(<<"encoding">>), Str(Txt(<<"json">>))>>,
                                           <<Txt(<<"original">>), value>> >>))))
  IN store(getRouteInfo(key), getDataInfo(value), encodeValue(value))

(***************************************************************************)
(* trust                                                                   *)
(***************************************************************************)
\* value.constructor.name
ConstructorName(value) ==
  CASE value.t = "str" -> "String"
    [] value.t = "num" -> "Number"
    [] value.t = "bool" -> "Boolean"
    [] OTHER -> "Object"

\* a run of pointer.set calls on one object, up to the first that throws
RECURSIVE SetAll(_, _)
SetAll(o, writes) ==
  IF writes = <<>> THEN Ok(o)
  ELSE LET next(r) == IF r.ok THEN SetAll(r.v, Tail(writes)) ELSE [ok |-> FALSE, v |-> o]
       IN next(PointerSet(o, parse(Head(writes)[1]), Head(writes)[2]))

\* the name a listener is registered under: `/sources/${store.id}`
SourceName(S) == Txt(<<"/", "sources", "/">>) \o ActorId(S.content)

\* the tip is written as the escaped key instead of the state id
tipWritesSwapped(id, router, sid, value) ==
  << <<Txt(<<"/", "types", "/">>) \o sid, Str(Txt(<<ConstructorName(value)>>))>>,
     <<Txt(<<"/", "tips", "/">>) \o router, Str(id)>>,
     <<Txt(<<"/", "names", "/">>) \o router, Str(sid)>> >>

\* the writes of /types, /tips and /names
tipWrites(id, router, sid, value) ==
  << <<Txt(<<"/", "types", "/">>) \o sid, Str(Txt(<<ConstructorName(value)>>))>>,
     <<Txt(<<"/", "tips", "/">>) \o router, Str(sid)>>,
     <<Txt(<<"/", "names", "/">>) \o router, Str(id)>> >>

\* the listener trust() registers, run on one put(key, value) of the source
OnPut(S, name, key, value) ==
  LET mirror(id, router, sid) ==
        LET tip(first) ==
              IF ~first.ok \/ value.t \in {"null", "undef"}
              THEN R(Throw, [S EXCEPT !.entity = first.v], <<>>)
              ELSE
                LET notify(rest) ==
                      IF ~rest.ok THEN R(Throw, [S EXCEPT !.entity = rest.v], <<>>)
                      ELSE R(Ok(Undef), [S EXCEPT !.entity = rest.v], <<SourceEvent(sid, key, value)>>)
                IN notify(SetAll(first.v, tipWrites(id, router, sid, value)))
        IN tip(SetAll(S.entity,
                      << <<name, value>>,
                         <<Txt(<<"/", "states", "/">>) \o sid, value>>,
                         <<Txt(<<"/", "blobs", "/">>) \o sid, Str(canonical(value))>> >>))
  IN IF ~Serializable(value) THEN R(Throw, S, <<>>)
     ELSE mirror(escape(key), sha256(escape(key)), StateId(value))

\* source.emit('put', key, value): the listeners in registration order; an
\* exception thrown by a listener leaves emit at once
RECURSIVE EmitPut(_, _, _, _)
EmitPut(S, listeners, key, value) ==
  IF listeners = <<>> THEN R(Ok(Undef), S, <<>>)
  ELSE LET next(r) ==
             IF ~r.ok THEN r
             ELSE LET both(t) == R(t, t.S, r.ev \o t.ev)
                  IN both(EmitPut(r.S, Tail(listeners), key, value))
       IN next(OnPut(S, Head(listeners), key, value))

(***************************************************************************)
(* Engine life cycle                                                       *)
(***************************************************************************)
NoDb == [state |-> "none", listeners |-> <<>>]

\* a call on the engine and whether it succeeded
EngineCall(call, arg, ok) == [call |-> call, arg |-> arg, ok |-> ok]

Did(S, call, arg, ok) == [S EXCEPT !.trail = Append(@, EngineCall(call, arg, ok))]

\* this.status = s
SetStatus(S, s) == [S EXCEPT !.status = s, !.trail = Append(@, EngineCall("status", Txt(<<s>>), TRUE))]

\* open(): `fail` is the engine refusing to create the handle
open(S, fail) ==
  IF fail THEN R(Ok(This), SetStatus(Did(S, "open", <<>>, FALSE), "error"), <<>>)
  ELSE LET opened(S1) == R(Ok(This), S1, commit(S1).ev)
       IN opened(SetStatus([Did(S, "open", <<>>, TRUE)
                              EXCEPT !.db = [state |-> "open", listeners |-> <<SourceName(S)>>],
                                     !.handles = @ + 1, !.subs = @ + 1],
                           "opened"))

\* close(): an engine error while closing is caught
close(S, fail) ==
  IF S.db.state = "none" THEN R(Ok(This), S, <<>>)
  ELSE IF fail THEN R(Ok(This), Did(S, "close", <<>>, FALSE), <<>>)
       ELSE R(Ok(This), [Did(S, "close", <<>>, TRUE) EXCEPT !.db.state = "closed"], <<>>)

\* del(key): opens the engine when there is no handle, then db.del
del(S, key, failOpen, failDel) ==
  LET remove(o) ==
        IF o.S.db.state = "none" THEN R(Throw, o.S, o.ev)
        ELSE IF o.S.db.state # "open" \/ failDel THEN R(Throw, Did(o.S, "del", key, FALSE), o.ev)
             ELSE R(Ok(Undef), [Did(o.S, "del", key, TRUE)
                                  EXCEPT !.disk = [a \in DOMAIN @ \ {key} |-> @[a]]], o.ev)
  IN remove(IF S.db.state = "none" THEN open(S, failOpen) ELSE R(Ok(This), S, <<>>))

\* the operations of a batch, applied to what the engine holds
RECURSIVE applyOps(_, _)
applyOps(held, ops) ==
  IF ops = <<>> THEN held
  ELSE applyOps(IF Head(ops).type = "put" THEN (Head(ops).key :> Head(ops).value) @@ held
                ELSE [a \in DOMAIN held \ {Head(ops).key} |-> held[a]],
                Tail(ops))

\* batch(ops): opens the engine when there is no handle or a closed one; an
\* exception of db.batch is caught and null returned
batch(S, ops, failOpen, failBatch) ==
  LET write(o) ==
        IF o.S.db.state = "none" THEN R(Ok(Null), o.S, o.ev)
        ELSE IF o.S.db.state # "open" \/ failBatch
             THEN R(Ok(Null), Did(o.S, "batch", <<>>, FALSE), o.ev)
             ELSE R(Ok(Undef), [Did(o.S, "batch", <<>>, TRUE) EXCEPT !.disk = applyOps(@, ops)], o.ev)
  IN write(IF S.db.state \in {"none", "closed"} THEN open(S, failOpen) ELSE R(Ok(This), S, <<>>))

\* this['@entity']['@data'].addresses, as a list of addresses
Addresses(S) ==
  IF HasKey(S.entity, Txt(<<"addresses">>))
  THEN LET list(a) == [i \in 1..Len(a.m) |-> a.m[i][2].s]
       IN list(GetKey(S.entity, Txt(<<"addresses">>)))
  ELSE <<>>

RECURSIVE delAll(_, _, _, _)
delAll(S, list, failOpen, failDel) ==
  IF list = <<>> THEN R(Ok(Undef), S, <<>>)
  ELSE LET next(d) ==
             IF ~d.ok THEN d
             ELSE LET both(t) == R(t, t.S, d.ev \o t.ev)
                  IN both(delAll(d.S, Tail(list), failOpen, failDel))
       IN next(del(S, Head(list), failOpen, failDel))

\* flush(): a failing del of a recorded address leaves flush with the
\* exception; the final del and commit are inside try/catch
flush(S, failOpen, failDel) ==
  LET wipe(a) ==
        IF ~a.ok THEN a
        ELSE LET last(d) ==
                   IF ~d.ok THEN R(Ok(This), d.S, a.ev \o d.ev)
                   ELSE R(Ok(This), d.S, a.ev \o d.ev \o commit(d.S).ev)
             IN last(del(a.S, Txt(<<"/", "collections">>), failOpen, failDel))
  IN wipe(delAll(S, Addresses(S), failOpen, failDel))

start(S, fail) ==
  LET started(o) == R(Ok(This), SetStatus(o.S, "started"), o.ev)
  IN started(open(SetStatus(S, "starting"), fail))

\* stop flushes whatever the persistent setting is
stopFlushing(S, isPersistent, failOpen, failDel, failClose) ==
  LET release(f) ==
        IF ~f.ok THEN f
        ELSE LET stopped(c) == R(Ok(This), SetStatus(c.S, "stopped"), f.ev \o c.ev)
             IN stopped(close(f.S, failClose))
  IN release(flush(SetStatus(S, "stopping"), failOpen, failDel))

stop(S, isPersistent, failOpen, failDel, failClose) ==
  LET release(f) ==
        IF ~f.ok THEN f
        ELSE LET stopped(c) == R(Ok(This), SetStatus(c.S, "stopped"), f.ev \o c.ev)
             IN stopped(close(f.S, failClose))
  IN release(IF isPersistent THEN R(Ok(This), SetStatus(S, "stopping"), <<>>)
             ELSE flush(SetStatus(S, "stopping"), failOpen, failDel))

(***************************************************************************)
(* Store primitives built on get and set                                   *)
(***************************************************************************)
\* a read miss yields undefined
_GETUndefined(S, key) ==
  LET caught(g) == IF g.ok THEN g ELSE R(Ok(Undef), S, <<>>) IN caught(get(S, key))

_GET(S, key) ==
  LET caught(g) == IF g.ok THEN g ELSE R(Ok(Null), S, <<>>) IN caught(get(S, key))

_SET(S, key, value) == set(S, key, value)

_PUT(S, key, value) == set(S, key, value)

_DELETE(S, key) ==
  LET done(p) == IF p.ok THEN R(Ok(Null), p.S, p.ev) ELSE p IN done(_PUT(S, key, Null))

\* Actor's constructor makes this.log an array: this.log(...) is not a call
LogIsFunction == FALSE

Falsy(v) == v.t \in {"null", "undef"} \/ v = Str(<<>>) \/ v = False

\* Object.assign(target, source): own properties of the source, in its order
RECURSIVE assignProps(_, _)
assignProps(target, m) ==
  IF m = <<>> THEN target
  ELSE assignProps(PutKey(target, Head(m)[1], Head(m)[2]), Tail(m))

ObjectAssign(target, source) ==
  CASE source.t = "obj" -> assignProps(target, source.m)
    [] source.t = "str" ->
         assignProps(target, [i \in 1..Len(source.s) |-> <<Txt(<<ToString(i - 1)>>), Str(<<source.s[i]>>)>>])
    [] OTHER -> target

\* Object.assign(root, current || {}, patch)
merge(current, patch) ==
  ObjectAssign(ObjectAssign(Obj(<<>>), IF Falsy(current) THEN Obj(<<>>) ELSE current), patch)

_PATCH(S, key, patch) ==
  IF ~LogIsFunction THEN R(Throw, S, <<>>)
  ELSE LET put(result) ==
             LET done(action) == R(Ok(result), action.S, action.ev)
             IN done(_PUT(S, key, result))
       IN put(merge(_GET(S, key).v, patch))

\* `store` and `vector` are not bound in _REGISTER: the first statement that
\* reads one of them throws a ReferenceError
StoreIsBound == FALSE

_REGISTER(S, obj) ==
  IF ~StoreIsBound THEN R(Throw, S, <<>>)
  ELSE LET entity(id, t) ==
             LET done(e) == R(Ok(e.v), e.S, t.ev \o e.ev)
             IN done(_SET(t.S, Txt(<<"/", "entities", "/">>) \o id, obj))
           type(id) == entity(id, _SET(S, Txt(<<"/", "types", "/">>) \o id, Str(Txt(<<"Actor">>))))
       IN type(ActorId(readObject(obj)))

\* the stack order list stored at a path: the ids held by the properties of
\* the stored list, in order
StackList(v) == IF v.t = "obj" THEN [i \in 1..Len(v.m) |-> v.m[i][2]] ELSE <<>>

ListValue(list) == Obj([i \in 1..Len(list) |-> <<Txt(<<ToString(i - 1)>>), list[i]>>])

_PUSH(S, key, data) ==
  LET push(path, list, vid) ==
        LET save(actor) ==
              IF ~actor.ok THEN actor
              ELSE
                LET order(blob) ==
                      IF ~blob.ok THEN R(Throw, blob.S, actor.ev \o blob.ev)
                      ELSE
                        LET output(saved) ==
                              IF ~saved.ok THEN R(Throw, saved.S, actor.ev \o blob.ev \o saved.ev)
                              ELSE R(_GET(saved.S, Txt(<<"/", "blobs", "/">>) \o vid), saved.S,
                                     actor.ev \o blob.ev \o saved.ev \o commit(saved.S).ev)
                        IN output(_SET(blob.S, path, ListValue(Append(list, Str(vid)))))
                IN order(_PUT(actor.S, Txt(<<"/", "blobs", "/">>) \o vid, data))
        IN save(_REGISTER(S, data))
      load(path) == push(path, StackList(_GET(S, path).v), StateId(data))
  IN IF ~Serializable(data) THEN R(Throw, S, <<>>)
     ELSE load(Txt(<<"/", "stacks", "/">>) \o escape(key))

RECURSIVE populate(_, _)
populate(S, element) ==
  IF element = <<>> THEN <<>>
  ELSE <<_GET(S, Txt(<<"/", "entities", "/">>) \o Head(element)).v>> \o populate(S, Tail(element))

\* Collection.serialize: the ordered identity list as a JSON array, and its parse
RECURSIVE joinIds(_, _)
joinIds(ids, first) ==
  IF ids = <<>> THEN <<>>
  ELSE (IF first THEN <<>> ELSE Txt(<<",">>)) \o Txt(<<"\"">>) \o Head(ids) \o Txt(<<"\"">>)
       \o joinIds(Tail(ids), FALSE)

SerializeIds(ids) == Txt(<<"[">>) \o joinIds(ids, TRUE) \o Txt(<<"]">>)

ParseIds(s) ==
  LET ids(h) == [i \in 1..Len(h) |-> <<h[i]>>] IN ids(SelectSeq(s, LAMBDA a : a[1] = "#hex"))

_POST(S, key, value, failOpen, failGet, failPut) ==
  LET post(router, address) ==
        LET append(S1) ==
              IF ~HasKey(S1.entity, Txt(<<"addresses">>)) THEN R(Throw, S1, <<>>)
              ELSE
                LET load(S2) ==
                      IF ~Serializable(value) THEN R(Throw, S2, <<>>)
                      ELSE
                        LET store(o, family) ==
                              LET write(object, serialized) ==
                                    IF ~object.ok \/ object.S.db.state = "none"
                                    THEN R(Ok(False), object.S, o.ev \o object.ev)
                                    ELSE IF object.S.db.state # "open" \/ failPut
                                    THEN R(Ok(False), Did(object.S, "put", address, FALSE),
                                           o.ev \o object.ev)
                                    ELSE LET link(e) == R(Ok(Str(StateId(value))), e.S,
                                                          o.ev \o object.ev \o e.ev)
                                         IN link(EmitPut([Did(object.S, "put", address, TRUE)
                                                            EXCEPT !.disk = (address :> serialized) @@ @],
                                                         object.S.db.listeners, address, Str(serialized)))
                              IN write(_PUT(o.S, Txt(<<"/", "entities", "/">>) \o StateId(value), value),
                                       SerializeIds([i \in 1..Len(family) |-> StateId(family[i])]
                                                    \o <<StateId(value)>>))
                            read(o) ==
                              store(IF o.S.db.state = "none" THEN o
                                    ELSE R(o, Did(o.S, "get", address, o.S.db.state = "open" /\ ~failGet),
                                           o.ev),
                                    IF o.S.db.state = "open" /\ ~failGet /\ address \in DOMAIN o.S.disk
                                    THEN populate(o.S, ParseIds(o.S.disk[address]))
                                    ELSE <<>>)
                        IN read(IF S2.db.state = "none" THEN open(S2, failOpen) ELSE R(Ok(This), S2, <<>>))
                IN load([S1 EXCEPT !.entity = PutKey(@, Txt(<<"addresses">>),
                                     PutKey(GetKey(@, Txt(<<"addresses">>)), router, Str(address)))])
        IN append([S EXCEPT !.method = "_POST",
                            !.keys = IF address \in DOMAIN @ THEN @
                                     ELSE (address :> [path |-> key, address |-> address]) @@ @])
      route(router) == post(router, Txt(<<"/", "collections", "/">>) \o router)
  IN route(sha256(escape(key)))

(***************************************************************************)
(* Inputs                                                                  *)
(***************************************************************************)
Cyclic == V("cyclic", <<>>, <<>>)

Paths == { Txt(<<"/", "a">>), Txt(<<"a">>), Txt(<<"/", "a", "/", "b">>), Txt(<<"/", "state">>) }

Values == { Str(Txt(<<"x">>)), Str(Txt(<<"y">>)), Null }

Partials == { Obj(<< <<Txt(<<"x">>), Str(Txt(<<"1">>))>> >>),
              Obj(<< <<Txt(<<"y">>), Obj(<< <<Txt(<<"x">>), Num>> >>)>> >>) }

PostValues == { Str(Txt(<<"x">>)), Str(Txt(<<"y">>)) }

PostPaths == { Txt(<<"/", "a">>), Txt(<<"b">>) }

SourceKeys == { Txt(<<"k">>), Txt(<<"/", "a">>) }

SourceValues == { Str(Txt(<<"x">>)), Str(Txt(<<"y">>)), Null, Cyclic }

\* identities of entities: those of the posted values and one of no entity
EntityIds == {StateId(v) : v \in PostValues} \cup {Digest(<<>>)}

MaxList == 2

\* identity lists handed to populate
IdLists == UNION {[1..n -> EntityIds] : n \in 0..MaxList}

\* keys of the engine, and batches of operations on them
EngineKeys == { Txt(<<"k">>) }

BatchOps == { << [type |-> "put", key |-> Txt(<<"k">>), value |-> Txt(<<"x">>)],
                 [type |-> "put", key |-> Txt(<<"j">>), value |-> Txt(<<"x">>)],
                 [type |-> "del", key |-> Txt(<<"j">>), value |-> <<>>] >> }

(***************************************************************************)
(* Specification                                                           *)
(***************************************************************************)
Call(op, key, value, r) == [op |-> op, key |-> key, value |-> value, ok |-> r.ok, v |-> r.v]

CommitIds(ev) ==
  LET ids(c) == [i \in 1..Len(c) |-> c[i].id] IN ids(SelectSeq(ev, LAMBDA e : e.type = "commit"))

\* the Store after a call, and what the call emitted
Becomes(r) ==
  /\ content' = r.S.content
  /\ actors' = r.S.actors
  /\ documents' = r.S.documents
  /\ indices' = r.S.indices
  /\ metadata' = r.S.metadata
  /\ keys' = r.S.keys
  /\ method' = r.S.method
  /\ entityData' = r.S.entity
  /\ db' = r.S.db
  /\ disk' = r.S.disk
  /\ status' = r.S.status
  /\ handles' = r.S.handles
  /\ subs' = r.S.subs
  /\ trail' = r.S.trail
  /\ emitted' = r.ev
  /\ nops' = nops + 1

\* a call ends: the Store it leaves, its outcome and what it emitted
Finish(op, key, value, r, mutating) ==
  /\ Becomes(r)
  /\ ret' = Call(op, key, value, r)
  /\ commitLog' = IF mutating THEN CommitIds(r.ev) ELSE commitLog \o CommitIds(r.ev)

Init ==
  /\ content = Obj(<<>>)
  /\ actors = Empty
  /\ documents = Empty
  /\ indices = Empty
  /\ metadata = Empty
  /\ keys = Empty
  /\ method = ""
  /\ entityData = Obj(<<>>)
  /\ db = NoDb
  /\ disk = Empty
  /\ status = "undefined"
  /\ handles = 0
  /\ subs = 0
  /\ trusted = <<>>
  /\ persistent \in BOOLEAN
  /\ ret = Call("new", <<>>, Undef, Ok(This))
  /\ emitted = <<>>
  /\ commitLog = <<>>
  /\ lastPut = Empty
  /\ trail = <<>>
  /\ nops = 0

Get ==
  \E key \in Paths :
       /\ nops < MaxOps
       /\ Finish("get", key, Undef, get(Self, key), FALSE)
       /\ UNCHANGED <<trusted, persistent, lastPut>>

Set ==
  \E key \in Paths, value \in Values :
       /\ nops < MaxOps
       /\ Finish("set", key, value, set(Self, key, value), TRUE)
       /\ UNCHANGED <<trusted, persistent, lastPut>>

Delete ==
  \E key \in Paths :
       /\ nops < MaxOps
       /\ Finish("delete", key, Undef, _DELETE(Self, key), TRUE)
       /\ UNCHANGED <<trusted, persistent, lastPut>>

Patch ==
  \E key \in PostPaths, partial \in Partials :
       /\ nops < MaxOps
       /\ Finish("patch", key, partial, _PATCH(Self, key, partial), TRUE)
       /\ UNCHANGED <<trusted, persistent, lastPut>>

Post ==
  \E key \in PostPaths, value \in PostValues, fail \in {"none", "put"} :
       /\ nops < MaxOps
       /\ Finish("post", key, value, _POST(Self, key, value, fail = "open", fail = "get", fail = "put"), TRUE)
       /\ UNCHANGED <<trusted, persistent, lastPut>>

Push ==
  \E key \in PostPaths, data \in PostValues :
       /\ nops < MaxOps
       /\ Finish("push", key, data, _PUSH(Self, key, data), TRUE)
       /\ UNCHANGED <<trusted, persistent, lastPut>>

Commit ==
       /\ nops < MaxOps
       /\ Finish("commit", <<>>, Undef, commit(Self), FALSE)
     /\ UNCHANGED <<trusted, persistent, lastPut>>

Open ==
  \E fail \in BOOLEAN :
       /\ nops < MaxOps
       /\ Finish("open", <<>>, Undef, open(Self, fail), FALSE)
       /\ UNCHANGED <<trusted, persistent, lastPut>>

Close ==
  \E fail \in BOOLEAN :
       /\ nops < MaxOps
       /\ Finish("close", <<>>, Undef, close(Self, fail), FALSE)
       /\ UNCHANGED <<trusted, persistent, lastPut>>

Start ==
  \E fail \in BOOLEAN :
       /\ nops < MaxOps
       /\ Finish("start", <<>>, Undef, start(Self, fail), FALSE)
       /\ UNCHANGED <<trusted, persistent, lastPut>>

Stop ==
  \E fail \in {"none", "open", "del", "close"} :
       /\ nops < MaxOps
       /\ Finish("stop", <<>>, Undef, stop(Self, persistent, fail = "open", fail = "del", fail = "close"), FALSE)
       /\ UNCHANGED <<trusted, persistent, lastPut>>

Del ==
  \E key \in EngineKeys, fail \in {"none", "open", "del"} :
       /\ nops < MaxOps
       /\ Finish("del", key, Undef, del(Self, key, fail = "open", fail = "del"), FALSE)
       /\ UNCHANGED <<trusted, persistent, lastPut>>

Batch ==
  \E ops \in BatchOps, fail \in {"none", "open", "batch"} :
       /\ nops < MaxOps
       /\ Finish("batch", <<>>, Undef, batch(Self, ops, fail = "open", fail = "batch"), FALSE)
       /\ UNCHANGED <<trusted, persistent, lastPut>>

Flush ==
  \E fail \in {"none", "open", "del"} :
       /\ nops < MaxOps
       /\ Finish("flush", <<>>, Undef, flush(Self, fail = "open", fail = "del"), FALSE)
       /\ UNCHANGED <<trusted, persistent, lastPut>>

\* trust(source) on the foreign source
Trust ==
  /\ nops < MaxOps
  /\ Len(trusted) < MaxTrust
  /\ trusted' = Append(trusted, SourceName(Self))
  /\ Finish("trust", <<>>, Undef, R(Ok(This), Self, <<>>), FALSE)
  /\ UNCHANGED <<persistent, lastPut>>

\* the foreign source emits put(key, value) to the listeners trust() registered
SourcePut ==
  \E key \in SourceKeys, value \in SourceValues :
       /\ nops < MaxOps
       /\ trusted # <<>>
       /\ Finish("put", key, value, EmitPut(Self, trusted, key, value), TRUE)
       /\ lastPut' = IF ret'.ok THEN (key :> value) @@ lastPut ELSE lastPut
       /\ UNCHANGED <<trusted, persistent>>

Next ==
  \/ Get \/ Set \/ Delete \/ Patch \/ Post \/ Push \/ Commit
  \/ Open \/ Close \/ Start \/ Stop \/ Del \/ Batch \/ Flush \/ Trust \/ SourcePut

Spec == Init /\ [][Next]_vars

\* _PUT(`/entities/${state.id}`, value), as _POST stores an entity
PutEntity ==
  \E value \in PostValues :
       /\ nops < MaxOps
       /\ Finish("set", Txt(<<"/", "entities", "/">>) \o StateId(value), value,
                 _PUT(Self, Txt(<<"/", "entities", "/">>) \o StateId(value), value), TRUE)
       /\ UNCHANGED <<trusted, persistent, lastPut>>

Populate ==
  \E element \in IdLists :
       /\ nops < MaxOps
       /\ Finish("populate", <<>>, ListValue([i \in 1..Len(element) |-> Str(element[i])]),
                 R(Ok(ListValue(populate(Self, element))), Self, <<>>), FALSE)
       /\ UNCHANGED <<trusted, persistent, lastPut>>

NextEntities == PutEntity \/ Populate

\* the Store under the writes of entities and their rehydration alone
SpecEntities == Init /\ [][NextEntities]_vars

(***************************************************************************)
(* Properties                                                              *)
(***************************************************************************)
RouteOf(key) == getRouteInfo(key).index

Stored(key) == _GET(Self, key).v

\* C1: read-your-write: a set(path, value) that has completed returned the
\* value, and a get(path) that follows at once returns that value
C1_ReadYourWrite ==
  (ret.op = "set" /\ ret.ok) =>
     /\ ret.v = ret.value
     /\ get(Self, ret.key).ok
     /\ get(Self, ret.key).v = ret.value

\* a set of a nested path has completed over an older value of that path
C1_Witness ==
  /\ ret.op = "set" /\ ret.ok
  /\ Len(parse(getRouteInfo(ret.key).path)) = 2
  /\ Cardinality(DOMAIN documents) = 2

\* C2: get(path) on a path that has no metadata record returns null; it
\* neither throws nor rejects
C2_GetMissingReturnsNull ==
  (ret.op = "get" /\ RouteOf(ret.key) \notin DOMAIN metadata) => (ret.ok /\ ret.v = Null)

\* C3: delete(path) on a path set before completes and returns null; after
\* it get(path) yields null and the route's indices and metadata entries
\* are still there
C3_DeleteTombstone ==
  [][\A key \in Paths :
       (ret'.op = "delete" /\ ret'.key = key /\ nops' = nops + 1
          /\ RouteOf(key) \in DOMAIN metadata) =>
            /\ ret'.ok /\ ret'.v = Null
            /\ Stored(key)' = Null
            /\ RouteOf(key) \in DOMAIN indices' \cap DOMAIN metadata']_vars

\* C4: patch(path, partial) returns and stores the shallow merge of partial
\* over the current value (over an empty record when the path is absent), and
\* a get(path) that follows returns the merged value
C4_PatchShallowMerge ==
  [][\A key \in PostPaths, partial \in Partials :
       (ret'.op = "patch" /\ ret'.key = key /\ ret'.value = partial /\ nops' = nops + 1) =>
          /\ ret'.ok /\ ret'.v = merge(Stored(key), partial)
          /\ Stored(key)' = merge(Stored(key), partial)]_vars

\* the collection list persisted for a posted path
CollectionList(key) ==
  LET address == Txt(<<"/", "collections", "/">>) \o sha256(escape(key))
  IN IF address \in DOMAIN disk THEN ParseIds(disk[address]) ELSE <<>>

EntityAt(id) == Stored(Txt(<<"/", "entities", "/">>) \o id)

\* C5: each post(path, v) raises the height of the collection persisted for
\* the path by exactly 1 and returns the content identity of v, under which v
\* is retrievable at /entities/{id}; a path without a collection starts empty
C5_PostAppends ==
  [][\A key \in PostPaths, value \in PostValues :
       (ret'.op = "post" /\ ret'.key = key /\ ret'.value = value /\ nops' = nops + 1) =>
          /\ ret'.ok /\ ret'.v = Str(StateId(value))
          /\ Len(CollectionList(key)') = Len(CollectionList(key)) + 1
          /\ EntityAt(StateId(value))' = value]_vars

StackAt(key) == StackList(Stored(Txt(<<"/", "stacks", "/">>) \o escape(key)))

IsPrefix(s, t) == Len(s) <= Len(t) /\ SubSeq(t, 1, Len(s)) = s

\* C7: a push extends the stack order list persisted for its path, and the
\* blob of the pushed id is retrievable at /blobs/{id} afterwards
C7_PushKeepsBlobs ==
  [][\A key \in PostPaths, data \in PostValues :
       (ret'.op = "push" /\ ret'.key = key /\ ret'.value = data /\ nops' = nops + 1) =>
          /\ IsPrefix(StackAt(key), StackAt(key)')
          /\ Stored(Txt(<<"/", "blobs", "/">>) \o StateId(data))' = data]_vars

\* C8: the commits made since the last mutating call all carry the same
\* identity, and a commit() returns and emits that identity
C8_CommitIdempotent ==
  /\ \A i, j \in 1..Len(commitLog) : commitLog[i] = commitLog[j]
  /\ ret.op = "commit" =>
       /\ ret.v = Str(commitLog[Len(commitLog)])
       /\ emitted = <<CommitEvent(commitLog[Len(commitLog)], EntityData(CommitState(Self)))>>

\* a commit after a set under /state and a start, each of which committed
C8_Witness ==
  /\ ret.op = "commit"
  /\ Len(commitLog) >= 3
  /\ HasKey(content, Txt(<<"state">>))
  /\ status = "started"

EntityGet(ptr) == PointerGet(entityData, parse(ptr))

C10_MirrorFailureCaught ==
  [][(ret'.op = "put" /\ nops' = nops + 1) =>
        /\ ret'.ok
        /\ (emitted' = <<>> => entityData' = entityData)]_vars

\* C11: the identity a commit carries is the digest of the Store's current
\* aggregate state: the commit announced by a set that has changed the stored
\* content carries another identity than a commit made before the set
C11_CommitTracksContent ==
  [][(ret'.op = "set" /\ ret'.ok /\ nops' = nops + 1 /\ content' # content) =>
        /\ commitLog' # <<>>
        /\ \A i \in 1..Len(commitLog') : Str(commitLog'[i]) # commit(Self).v]_vars

\* the same value with its mapping keys inserted in the opposite order
RECURSIVE Reversed(_)
Reversed(v) ==
  IF v.t # "obj" THEN v
  ELSE Obj([i \in 1..Len(v.m) |-> <<v.m[Len(v.m) + 1 - i][1], Reversed(v.m[Len(v.m) + 1 - i][2])>>])

\* values deep-equal to v whose mapping keys were inserted in another order
Reorderings(v) ==
  IF v.t # "obj" THEN {v}
  ELSE { Obj([i \in 1..Len(v.m) |->
               <<v.m[p[i]][1], IF deep THEN Reversed(v.m[p[i]][2]) ELSE v.m[p[i]][2]>>]) :
           p \in Permutations(1..Len(v.m)), deep \in BOOLEAN }

SameIds(v, w) == ActorId(v) = ActorId(w) /\ StateId(v) = StateId(w)

\* C12: content identity is independent of key insertion order: an Actor and
\* a State Value built from a value deep-equal to the content tree a set has
\* written, or to the tree a put was mirrored into, with keys inserted in
\* another order have the same id
C12_IdentityIgnoresKeyOrder ==
  /\ ret.op = "set" => \A w \in Reorderings(content) : SameIds(w, content)
  /\ ret.op = "put" => SameIds(Reversed(entityData), entityData)

\* the content tree holds two paths inserted in an order that is not the
\* sorted one, one of them nested
C12_Witness ==
  /\ ret.op = "set" /\ ret.ok
  /\ Len(content.m) = 2
  /\ content # sortKeys(content)
  /\ \E i \in 1..2 : content.m[i][2].t = "obj"

\* C13: the engine handle is created at most once and then shared, with at
\* most one trust subscription on it
C13_EngineOpenedOnce == handles <= 1 /\ subs <= 1

StatusEnum == {"PAUSED", "starting", "started", "error", "stopping", "stopped"}

\* C14: in every reachable state the status is one of PAUSED, starting,
\* started, error, stopping, stopped
C14_StatusInEnum == status \in StatusEnum

\* the engine calls of the last call that failed
Failed == SelectSeq(trail, LAMBDA e : e.call # "status" /\ ~e.ok)

\* C15: when the engine fails during open or during batch, the operation
\* returns without throwing and the status is error
C15_EngineFailureSetsError ==
  (ret.op \in {"open", "batch"} /\ Failed # <<>>) => (ret.ok /\ status = "error")

\* the positions of the calls of one kind in the trail
Calls(t, call) == {i \in 1..Len(t) : t[i].call = call}

StatusSet(s) == EngineCall("status", Txt(<<s>>), TRUE)

\* C16: stop() goes from status stopping to status stopped; when persistent
\* is false it deletes from the engine every address of the address index
\* before it closes the engine, when persistent is true it deletes nothing
C16_StopFlushesBeforeClose ==
  ret.op = "stop" =>
     /\ ret.ok
     /\ Head(trail) = StatusSet("stopping")
     /\ trail[Len(trail)] = StatusSet("stopped")
     /\ status = "stopped"
     /\ persistent => Calls(trail, "del") = {}
     /\ ~persistent =>
          /\ \A k \in 1..Len(Addresses(Self)) :
               \E i \in Calls(trail, "del") : trail[i].arg = Addresses(Self)[k]
          /\ \A i \in Calls(trail, "del"), j \in Calls(trail, "close") : i < j

\* a stop with persistent false has deleted from the engine and then closed it
C16_Witness ==
  /\ ret.op = "stop" /\ ~persistent
  /\ \E i \in Calls(trail, "del"), j \in Calls(trail, "close") : trail[i].ok /\ trail[j].ok
  /\ status = "stopped"

\* C17: an engine failure during del, batch, flush, open, close or post is
\* surfaced as a return value, never as an exception or a rejected promise
C17_EngineFailureNeverThrows ==
  (ret.op \in {"del", "batch", "flush", "open", "close", "post"} /\ Failed # <<>>) => ret.ok

\* C18: two patch calls on the same path that run one after the other lose
\* no update: the value stored after the second has the properties of both
C18_SequentialPatchesKeepBoth ==
  [][\A key \in PostPaths, first \in Partials, second \in Partials :
       (ret.op = "patch" /\ ret.key = key /\ ret.value = first /\ first # second
          /\ ret'.op = "patch" /\ ret'.key = key /\ ret'.value = second /\ nops' = nops + 1) =>
          \A p \in {first, second} : \A i \in 1..Len(p.m) : HasKey(Stored(key)', p.m[i][1])]_vars

Notifications == SelectSeq(emitted, LAMBDA e : e.type = "source/events")

\* C19: a put of a trusted source is notified by at most one source/events
\* event, which carries the put's key as target and its value as data
C19_NotifiedAtMostOnce ==
  ret.op = "put" =>
     /\ Len(Notifications) <= 1
     /\ \A i \in 1..Len(Notifications) :
          Notifications[i].target = ret.key /\ Notifications[i].data = ret.value

\* C20: a path maps to one route digest whichever operation uses it: the
\* collection address post registers for a path, and the tip trust writes for
\* a key, are named by the digest get and set derive for it
C20_OneRouteDigest ==
  /\ \A address \in DOMAIN keys :
       address = Txt(<<"/", "collections", "/">>) \o RouteOf(keys[address].path)
  /\ \A key \in DOMAIN lastPut : EntityGet(Txt(<<"/", "tips", "/">>) \o RouteOf(key)).ok

\* C21: the documents table holds one entry for a value, under the digest of
\* the value, however many paths it was set under; the indices and metadata
\* tables hold one entry per route, under the digest of the route; a set that
\* has completed has its value and its route in them
C21_OneDocumentPerValue ==
  /\ \A h \in DOMAIN documents : h = sha256(ValueBytes(documents[h]))
  /\ DOMAIN indices = DOMAIN metadata
  /\ \A r \in DOMAIN indices : r = sha256(indices[r])
  /\ (ret.op = "set" /\ ret.ok) =>
       /\ sha256(ValueBytes(ret.value)) \in DOMAIN documents
       /\ RouteOf(ret.key) \in DOMAIN metadata

\* one value has been set under two routes
C21_Witness ==
  /\ ret.op = "set" /\ ret.ok
  /\ Cardinality(DOMAIN documents) = 1
  /\ Cardinality(DOMAIN metadata) = 2

\* the value stored at /entities/{id}, null when there is none
EntitySlot(id) ==
  LET slot(path) ==
        IF RouteOf(path) \in DOMAIN metadata /\ PointerGet(content, parse(path)).ok
        THEN PointerGet(content, parse(path)).v
        ELSE Null
  IN slot(Txt(<<"/", "entities", "/">>) \o id)

C24_CommitChangesNothing ==
  [][(ret'.op = "commit" /\ nops' = nops + 1) =>
        /\ UNCHANGED <<content, actors, documents, metadata, indices, keys, method, entityData,
                       status, db, disk, handles, subs>>
        /\ emitted' = <<CommitEvent(EntityId(CommitState(Self)), EntityData(CommitState(Self)))>>
        /\ ret'.ok /\ ret'.v = Str(EntityId(CommitState(Self)))]_vars

\* a commit on a Store that holds content and an open engine with something in it
C24_Witness ==
  /\ ret.op = "commit"
  /\ content # Obj(<<>>)
  /\ db.state = "open"
  /\ DOMAIN disk # {}

\* C25: every route that has a metadata record is readable: get on its path
\* returns a value and does not throw
C25_RecordedRoutesReadable ==
  \A key \in Paths : RouteOf(key) \in DOMAIN metadata => get(Self, key).ok

\* C26: whenever the status is started, the engine handle exists and is open
C26_StartedMeansOpen == status = "started" => db.state = "open"

====
